---------------------------- MODULE Spec2Model ----------------------------
(***************************************************************************)
(* Model of election_ballot_parser.py: BallotProcessor.process_pdf, its    *)
(* two regular-expression scans, and BatchProcessor.process_all.           *)
(*                                                                         *)
(* A text is a sequence of tokens; the program's string is the             *)
(* concatenation of the tokens.  A token is either a single character      *)
(* ("1", "2", ".", " ", "\n", "(", ")"), an upper-case word (all of its    *)
(* characters are in [A-Z ] and it neither starts nor ends with a blank),  *)
(* or the literal "/ Vote for".  No token contains "CITY", "Clustered      *)
(* Precinct ID:" or "Precincts in Cluster:".                               *)
(***************************************************************************)
EXTENDS Integers, Sequences, FiniteSets

VARIABLES senators, partylist, default_instructions, pdf_files, pdf_index,
          pc, text, position_matches, i, seen_positions, positions, outputs

vars == <<senators, partylist, default_instructions, pdf_files, pdf_index,
          pc, text, position_matches, i, seen_positions, positions, outputs>>

-----------------------------------------------------------------------------
(* Bounds of the model.                                                    *)

\* Most chunks (lines) of a ballot text in a single-document run.
MaxLines == 4

\* Most chunks of a ballot text in a batch run.
MaxBatchLines == 2

\* Most PDF files in the input directory of a batch run.
MaxDocs == 2

-----------------------------------------------------------------------------
(* Tokens and character classes.                                           *)

VF == "/ Vote for"

Words == {"SENATOR", "PARTY LIST", "MAYOR", "VICE MAYOR", "JUAN", "ANA", "CRUZ", "NP", "IND"}

Digits == {"1", "2"}

\* \s
Whitespace == {" ", "\n"}

\* [A-ZÑ ,\-/] of the header pattern (line 75), on the tokens of the model.
HeaderClass == Words \cup {" "}

\* [A-ZÑ.,' \-\n] of the candidate patterns (lines 145 and 158).
NameClass == Words \cup {".", " ", "\n"}

DigitValue(d) == IF d = "1" THEN 1 ELSE 2

\* int(s) of a string of decimal digits.
RECURSIVE IntOf(_)
IntOf(digits) ==
    IF digits = <<>> THEN 0
    ELSE 10 * IntOf(SubSeq(digits, 1, Len(digits) - 1)) + DigitValue(digits[Len(digits)])

\* str.strip(): leading and trailing whitespace removed.
RECURSIVE Strip(_)
Strip(s) ==
    IF s = <<>> THEN <<>>
    ELSE IF s[1] \in Whitespace THEN Strip(Tail(s))
    ELSE IF s[Len(s)] \in Whitespace THEN Strip(SubSeq(s, 1, Len(s) - 1))
    ELSE s

\* str.replace("\n", " ")
ReplaceNewlines(s) == [k \in 1..Len(s) |-> IF s[k] = "\n" THEN " " ELSE s[k]]

\* The first index k >= from with text[k] not in class (Len(text) + 1 when none).
RECURSIVE RunEnd(_, _, _)
RunEnd(txt, from, class) ==
    IF from > Len(txt) \/ txt[from] \notin class THEN from
    ELSE RunEnd(txt, from + 1, class)

\* The first index k >= from with text[k] = tok (0 when none).
RECURSIVE IndexOf(_, _, _)
IndexOf(txt, from, tok) ==
    IF from > Len(txt) THEN 0
    ELSE IF txt[from] = tok THEN from
    ELSE IndexOf(txt, from + 1, tok)

NoMatch == [found |-> FALSE]

-----------------------------------------------------------------------------
(* re.finditer(r"([A-ZÑ ,\-/]+) / Vote for (\d+)", text), line 75.     *)

\* The match of the header pattern that starts at token s, if any.  Group 1
\* is greedy: it takes the whole run of class tokens and gives back the one
\* blank that the literal " / Vote for " starts with; the literal can only
\* be found where VF stands, so no shorter group matches.  start and end are
\* match.start() and match.end() as token indexes: the match covers
\* text[start .. end - 1].
HeaderMatchAt(txt, s) ==
    LET r == RunEnd(txt, s, HeaderClass)
        d == RunEnd(txt, r + 2, Digits)
    IN  IF /\ r - 2 >= s
           /\ txt[r - 1] = " "
           /\ r + 2 <= Len(txt)
           /\ txt[r] = VF
           /\ txt[r + 1] = " "
           /\ txt[r + 2] \in Digits
        THEN [found |-> TRUE, start |-> s, end |-> d,
              group1 |-> SubSeq(txt, s, r - 2),
              group2 |-> SubSeq(txt, r + 2, d - 1)]
        ELSE NoMatch

\* The non-overlapping matches from token pos on, leftmost first.
RECURSIVE FindHeaders(_, _)
FindHeaders(txt, pos) ==
    IF pos > Len(txt) THEN <<>>
    ELSE LET m == HeaderMatchAt(txt, pos)
         IN  IF m.found THEN <<m>> \o FindHeaders(txt, m.end)
             ELSE FindHeaders(txt, pos + 1)

-----------------------------------------------------------------------------
(* The candidate patterns of _extract_candidates_from_section.             *)

\* The number of digits k (3, 2 or 1, the greedy \d{1,3}) such that
\* text[s .. s+k-1] are digits and text[s+k] is the "."; 0 when there is none.
DigitsBeforeDot(txt, s) ==
    LET r == RunEnd(txt, s, Digits)
    IN  IF r - s >= 1 /\ r - s <= 3 /\ r <= Len(txt) /\ txt[r] = "." THEN r - s ELSE 0

\* The rest of both candidate patterns after the ".", which stands at token
\* dot:  \s+([A-ZÑ.,' \-\n]+?)\s*\((.*?)\).  The tokens between the "." and
\* the "(" must all be of the name class, the first of them whitespace, and
\* there must be two at least (one for \s+, one for the name).  Whichever way
\* \s+, the lazy name and \s* share them, the name group stripped is those
\* tokens stripped.  The lazy party group ends at the first ")"; "." matches
\* a line break only under re.DOTALL.
CandidateTail(txt, dot, dotall) ==
    LET open  == RunEnd(txt, dot + 1, NameClass)
        close == IndexOf(txt, open + 1, ")")
        party == SubSeq(txt, open + 1, close - 1)
    IN  IF /\ open <= Len(txt)
           /\ txt[open] = "("
           /\ open - (dot + 1) >= 2
           /\ txt[dot + 1] \in Whitespace
           /\ close # 0
           /\ (dotall \/ \A k \in 1..Len(party) : party[k] # "\n")
        THEN [found |-> TRUE, end |-> close + 1,
              name  |-> SubSeq(txt, dot + 1, open - 1),
              party |-> party]
        ELSE NoMatch

\* pattern (line 145) at token s: (\d{1,3})\.\s+(name)\s*\((party)\), DOTALL.
PrimaryMatchAt(txt, s) ==
    LET k == DigitsBeforeDot(txt, s)
        t == CandidateTail(txt, s + k, TRUE)
    IN  IF k > 0 /\ t.found
        THEN [found |-> TRUE, start |-> s, end |-> t.end,
              number |-> SubSeq(txt, s, s + k - 1), name |-> t.name, party |-> t.party]
        ELSE NoMatch

\* list(pattern.finditer(section_text)), line 146.
RECURSIVE PrimaryMatches(_, _)
PrimaryMatches(txt, pos) ==
    IF pos > Len(txt) THEN <<>>
    ELSE LET m == PrimaryMatchAt(txt, pos)
         IN  IF m.found THEN <<m>> \o PrimaryMatches(txt, m.end)
             ELSE PrimaryMatches(txt, pos + 1)

\* The lone-entry pattern (line 158) at token s: 1\.\s+(name)\s*\((party)\),
\* without DOTALL.
SingleMatchAt(txt, s) ==
    IF s + 1 <= Len(txt) /\ txt[s] = "1" /\ txt[s + 1] = "."
    THEN CandidateTail(txt, s + 1, FALSE)
    ELSE NoMatch

\* re.search of the lone-entry pattern: the leftmost match from pos on.
RECURSIVE SingleSearch(_, _)
SingleSearch(txt, pos) ==
    IF pos > Len(txt) THEN NoMatch
    ELSE LET m == SingleMatchAt(txt, pos)
         IN  IF m.found THEN m ELSE SingleSearch(txt, pos + 1)

\* name.replace("\n", " ").strip(), lines 151 and 161.
NormalizeName(name) == Strip(ReplaceNewlines(name))

\* party.strip() if party.strip() else "IND", lines 155 and 165.
NormalizeParty(party) == IF Strip(party) # <<>> THEN Strip(party) ELSE <<"IND">>

\* A ballot number as the program holds it: a Python str (the text of the
\* regular expression's group) or a Python int; repr is its decimal text.
StrNumber(digits) == [py |-> "str", repr |-> digits]

IntNumber(digits) == [py |-> "int", repr |-> digits]

\* int(item["number"]), the sort key of line 168.
NumberKey(item) == IntOf(item.number.repr)

\* Lines 149-156 keeping only the first match of each number.
CandidatesFromDistinctMatches(matches) ==
    LET keep == {k \in 1..Len(matches) :
                    \A j \in 1..(k - 1) : matches[j].number # matches[k].number}
        RECURSIVE Build(_)
        Build(k) ==
            IF k = 0 THEN <<>>
            ELSE IF k \in keep
                 THEN Append(Build(k - 1),
                             [number |-> StrNumber(matches[k].number),
                              name   |-> NormalizeName(matches[k].name),
                              party  |-> NormalizeParty(matches[k].party)])
                 ELSE Build(k - 1)
    IN  Build(Len(matches))

\* Lines 149-156: one candidate per match of the repeating pattern.
CandidatesFromMatches(matches) ==
    [k \in 1..Len(matches) |->
        [number |-> StrNumber(matches[k].number),
         name   |-> NormalizeName(matches[k].name),
         party  |-> NormalizeParty(matches[k].party)]]

\* Lines 158-166: the lone-entry strategy.
LoneEntryCandidates(section_text) ==
    LET single_match == SingleSearch(section_text, 1)
    IN  IF single_match.found
        THEN << [number |-> IntNumber(<<"1">>),
                 name   |-> NormalizeName(single_match.name),
                 party  |-> NormalizeParty(single_match.party)] >>
        ELSE <<>>

\* list.sort(key=...) is stable: an item goes after the items of the sorted
\* list whose key is not greater.
RECURSIVE InsertByNumber(_, _)
InsertByNumber(sorted, item) ==
    IF sorted = <<>> THEN <<item>>
    ELSE IF NumberKey(sorted[Len(sorted)]) <= NumberKey(item) THEN Append(sorted, item)
    ELSE Append(InsertByNumber(SubSeq(sorted, 1, Len(sorted) - 1), item), sorted[Len(sorted)])

RECURSIVE SortByNumber(_)
SortByNumber(candidates) ==
    IF candidates = <<>> THEN <<>>
    ELSE InsertByNumber(SortByNumber(SubSeq(candidates, 1, Len(candidates) - 1)),
                        candidates[Len(candidates)])

\* _extract_candidates_from_section, lines 144-169.
ExtractCandidatesFromSection(section_text) ==
    LET matches == PrimaryMatches(section_text, 1)
    IN  SortByNumber(IF matches # <<>> THEN CandidatesFromMatches(matches)
                     ELSE LoneEntryCandidates(section_text))

-----------------------------------------------------------------------------
(* The inputs: ballot texts and reference data.                            *)

\* "SENATOR / Vote for 12\n"
HeaderSenator == <<"SENATOR", " ", VF, " ", "1", "2", "\n">>

\* "MAYOR / Vote for 1\n"
HeaderMayor == <<"MAYOR", " ", VF, " ", "1", "\n">>

\* " VICE MAYOR / Vote for 2", with no line break after it.
HeaderViceMayor == <<" ", "VICE MAYOR", " ", VF, " ", "2">>

\* "1. JUAN (NP)\n"
EntryOne == <<"1", ".", " ", "JUAN", " ", "(", "NP", ")", "\n">>

\* "\n2. ANA\nCRUZ()\n": a name wrapped over two lines, an empty party field.
EntryTwo == <<"\n", "2", ".", " ", "ANA", "\n", "CRUZ", "(", ")", "\n">>

\* "12. CRUZ (NP)\n": a number that sorts before 2 as text and after it as
\* a number.
EntryTwelve == <<"1", "2", ".", " ", "CRUZ", " ", "(", "NP", ")", "\n">>

Chunks == {HeaderSenator, HeaderMayor, HeaderViceMayor, EntryOne, EntryTwo, EntryTwelve}

\* The texts made of n chunks at most.
RECURSIVE Texts(_)
Texts(n) ==
    IF n = 0 THEN {<<>>}
    ELSE LET shorter == Texts(n - 1)
         IN  shorter \cup {t \o c : t \in shorter, c \in Chunks}

\* What senator_candidates_full.json may hold: nothing, or two candidates in
\* an order that is not that of their numbers (12 before 2).
SenatorLists ==
    { <<>>,
      << [number |-> IntNumber(<<"1", "2">>), name |-> <<"ANA", " ", "CRUZ">>, party |-> <<"NP">>],
         [number |-> IntNumber(<<"2">>), name |-> <<"JUAN">>, party |-> <<"IND">>] >> }

\* What party_list_full.json may hold.
PartyLists ==
    { <<>>,
      << [number |-> StrNumber(<<"1">>), name |-> <<"NP">>, party |-> <<"NP">>] >> }

\* A PDF file of the input directory: extract_text returns a text with some
\* content for a "ballot", the empty string for a "blank" (a PDF with no text
\* layer), and raises for a "corrupt" file.
PdfKinds == {"ballot", "blank", "corrupt"}

RECURSIVE PdfLists(_)
PdfLists(n) ==
    IF n = 0 THEN {<<>>}
    ELSE LET shorter == PdfLists(n - 1)
         IN  shorter \cup {Append(l, k) : l \in {x \in shorter : Len(x) = n - 1}, k \in PdfKinds}

NoFile == [written |-> FALSE]

-----------------------------------------------------------------------------
(* BallotProcessor.                                                        *)

SENATOR == <<"SENATOR">>

PARTY_LIST == <<"PARTY LIST">>

\* _create_senator_position sorting the reference list it is given.
CreateSenatorPositionSorted(instructions, candidates) ==
    [position |-> SENATOR, vote_for |-> 12,
     instructions |-> instructions, candidates |-> SortByNumber(candidates)]

\* _create_senator_position, lines 111-118.
CreateSenatorPosition(instructions, candidates) ==
    [position |-> SENATOR, vote_for |-> 12,
     instructions |-> instructions, candidates |-> candidates]

\* _create_partylist_position, lines 120-130.
CreatePartylistPosition(candidates) ==
    [position |-> PARTY_LIST, vote_for |-> 1,
     instructions |->
        [english  |-> "For PARTY LIST CANDIDATES, CHECK THE BACK OF THIS BALLOT",
         filipino |-> "Para sa mga kandidato ng Party List, tingnan ang likod ng balotang ito"],
     candidates |-> candidates]

\* pos_name of line 78.
PosName(match) == Strip(match.group1)

\* vote_for of line 79.
VoteFor(match) == IntOf(match.group2)

\* section_text with the end of the text for end_index.
SectionTextToEnd(txt, matches, k) == SubSeq(txt, matches[k].end, Len(txt))

\* section_text of lines 85-87 for match k of matches (k counts from 1).
SectionText(txt, matches, k) ==
    LET start_index == matches[k].end
        end_index   == IF k + 1 <= Len(matches) THEN matches[k + 1].start ELSE Len(txt) + 1
    IN  SubSeq(txt, start_index, end_index - 1)

\* Line 81.
AlreadySeen(seen, pos_name) == pos_name \in seen

\* Line 83 left out.
SeenAddForgotten(seen, pos_name) == seen

\* Line 83.
SeenAdd(seen, pos_name) == seen \cup {pos_name}

\* Lines 90-97 without the test of line 90.
AppendPositionAlways(poslist, pos_name, vote_for, instructions, candidates) ==
    Append(poslist, [position |-> pos_name, vote_for |-> vote_for,
                     instructions |-> instructions, candidates |-> candidates])

\* Lines 90-97 with the entry put right after the two fixed positions.
InsertPositionAfterFixed(poslist, pos_name, vote_for, instructions, candidates) ==
    IF candidates # <<>>
    THEN SubSeq(poslist, 1, 2)
            \o << [position |-> pos_name, vote_for |-> vote_for,
                   instructions |-> instructions, candidates |-> candidates] >>
            \o SubSeq(poslist, 3, Len(poslist))
    ELSE poslist

\* Lines 90-97: the entry is appended when the candidate list is not empty.
AppendPosition(poslist, pos_name, vote_for, instructions, candidates) ==
    IF candidates # <<>>
    THEN Append(poslist, [position |-> pos_name, vote_for |-> vote_for,
                          instructions |-> instructions, candidates |-> candidates])
    ELSE poslist

\* ballot_json of lines 99-105.  The three metadata searches of lines 57-67
\* find nothing in a text of the model's tokens, so each field has the value
\* of its else branch.
BallotJson(poslist) ==
    [written |-> TRUE,
     election_date |-> "MAY 12, 2025",
     location |-> "UNKNOWN",
     clustered_precinct_id |-> "UNKNOWN",
     precincts_in_cluster |-> <<>>,
     positions |-> poslist]

\* Lines 53-75 of process_pdf, called by line 192 for the next PDF file:
\* extract_text returns, the two fixed positions and the seen set are made
\* and the headers are found.  i counts the matches from 1.
ProcessPdfStart(max_lines) ==
    /\ pc = "next_pdf"
    /\ pdf_index <= Len(pdf_files)
    /\ pdf_files[pdf_index] # "corrupt"
    /\ \E t \in Texts(max_lines) :
          /\ (pdf_files[pdf_index] = "blank") <=> (t = <<>>)
          /\ text' = t
          /\ position_matches' = FindHeaders(t, 1)
    /\ positions' = << CreateSenatorPosition(default_instructions, senators),
                       CreatePartylistPosition(partylist) >>
    /\ seen_positions' = {SENATOR, PARTY_LIST}
    /\ i' = 1
    /\ pc' = "headers"
    /\ UNCHANGED <<senators, partylist, default_instructions, pdf_files, pdf_index, outputs>>

\* Line 54 raises: nothing catches the exception in process_pdf, in
\* process_all or at line 196, and the program ends.
ExtractTextRaises ==
    /\ pc = "next_pdf"
    /\ pdf_index <= Len(pdf_files)
    /\ pdf_files[pdf_index] = "corrupt"
    /\ pc' = "crashed"
    /\ UNCHANGED <<senators, partylist, default_instructions, pdf_files, pdf_index,
                   text, position_matches, i, seen_positions, positions, outputs>>

\* One pass of the loop of line 77 that ends at the continue of line 82.
HeaderSkip ==
    /\ pc = "headers"
    /\ i <= Len(position_matches)
    /\ AlreadySeen(seen_positions, PosName(position_matches[i]))
    /\ i' = i + 1
    /\ UNCHANGED <<senators, partylist, default_instructions, pdf_files, pdf_index,
                   pc, text, position_matches, seen_positions, positions, outputs>>

\* One pass of the loop of line 77 that goes on to lines 83-97.
HeaderProcess ==
    /\ pc = "headers"
    /\ i <= Len(position_matches)
    /\ ~AlreadySeen(seen_positions, PosName(position_matches[i]))
    /\ seen_positions' = SeenAdd(seen_positions, PosName(position_matches[i]))
    /\ LET section_text == SectionText(text, position_matches, i)
           candidates   == ExtractCandidatesFromSection(section_text)
       IN  positions' = AppendPosition(positions, PosName(position_matches[i]),
                                       VoteFor(position_matches[i]),
                                       default_instructions, candidates)
    /\ i' = i + 1
    /\ UNCHANGED <<senators, partylist, default_instructions, pdf_files, pdf_index,
                   pc, text, position_matches, outputs>>

\* Lines 99-109, after the loop: the record is written to the output file of
\* this PDF, process_pdf returns and its locals are gone.
WriteOutput ==
    /\ pc = "headers"
    /\ i > Len(position_matches)
    /\ outputs' = [outputs EXCEPT ![pdf_index] = BallotJson(positions)]
    /\ pdf_index' = pdf_index + 1
    /\ pc' = "next_pdf"
    /\ text' = <<>>
    /\ position_matches' = <<>>
    /\ i' = 0
    /\ seen_positions' = {}
    /\ positions' = <<>>
    /\ UNCHANGED <<senators, partylist, default_instructions, pdf_files>>

\* The loop of line 190 has no file left: process_all returns.
ProcessAllReturns ==
    /\ pc = "next_pdf"
    /\ pdf_index > Len(pdf_files)
    /\ pc' = "done"
    /\ UNCHANGED <<senators, partylist, default_instructions, pdf_files, pdf_index,
                   text, position_matches, i, seen_positions, positions, outputs>>

\* The state after BatchProcessor.__init__ (lines 182-185, 34-43) and the glob
\* of line 189, for a directory of the given PDF files.
InitWith(pdf_lists) ==
    /\ senators \in SenatorLists
    /\ partylist \in PartyLists
    /\ default_instructions =
          [english  |-> "Mark the inside of the circle beside the name of the desired candidate.",
           filipino |-> "Markahan ang loob ng bilog sa tabi ng nais ibotong kandidato."]
    /\ pdf_files \in pdf_lists
    /\ pdf_index = 1
    /\ pc = "next_pdf"
    /\ text = <<>>
    /\ position_matches = <<>>
    /\ i = 0
    /\ seen_positions = {}
    /\ positions = <<>>
    /\ outputs = [d \in 1..Len(pdf_files) |-> NoFile]

\* A batch run over a directory of MaxDocs files at most.
Init == InitWith(PdfLists(MaxDocs))

Next ==
    \/ ProcessPdfStart(MaxBatchLines)
    \/ ExtractTextRaises
    \/ HeaderSkip
    \/ HeaderProcess
    \/ WriteOutput
    \/ ProcessAllReturns

Spec == Init /\ [][Next]_vars

\* A run over a directory of one file, with longer texts.
DocInit == InitWith({l \in PdfLists(1) : Len(l) = 1})

DocNext ==
    \/ ProcessPdfStart(MaxLines)
    \/ ExtractTextRaises
    \/ HeaderSkip
    \/ HeaderProcess
    \/ WriteOutput
    \/ ProcessAllReturns

DocSpec == DocInit /\ [][DocNext]_vars

-----------------------------------------------------------------------------
(* Vocabulary of the properties.                                           *)

\* The records written so far.
WrittenRecords == {outputs[d] : d \in {e \in DOMAIN outputs : outputs[e].written}}

\* The position lists the properties speak of: the one being built by the
\* running process_pdf, and the one of every record written.
PositionLists ==
    {rec.positions : rec \in WrittenRecords} \cup (IF pc = "headers" THEN {positions} ELSE {})

\* The loop of line 77 is over and the record is about to be written.
LoopDone == pc = "headers" /\ i > Len(position_matches)

FixedNames == {SENATOR, PARTY_LIST}

\* The stripped name of header match k of the text being parsed.
NameOfMatch(k) == Strip(position_matches[k].group1)

\* Match k is the first header match of its name.
IsFirstOccurrence(k) == \A j \in 1..(k - 1) : NameOfMatch(j) # NameOfMatch(k)

\* The index of the first header match of a name (0 when it has none).
FirstMatchIndex(name) ==
    IF \E k \in 1..Len(position_matches) : NameOfMatch(k) = name
    THEN CHOOSE k \in 1..Len(position_matches) : NameOfMatch(k) = name /\ IsFirstOccurrence(k)
    ELSE 0

\* The text from the end of header match k to the start of match k + 1, or
\* to the end of the text.
SegmentAfter(k) ==
    SubSeq(text, position_matches[k].end,
           (IF k < Len(position_matches) THEN position_matches[k + 1].start
            ELSE Len(text) + 1) - 1)

\* The entries of the repeating pattern in the segment of a discovered position.
EntriesOf(pos) == PrimaryMatches(SegmentAfter(FirstMatchIndex(pos.position)), 1)

NamesUnique(poslist) ==
    \A a, b \in 1..Len(poslist) : a # b => poslist[a].position # poslist[b].position

SortedByNumber(candidates) ==
    \A a, b \in 1..Len(candidates) :
        a < b => IntOf(candidates[a].number.repr) <= IntOf(candidates[b].number.repr)

NumbersUnique(candidates) ==
    \A a, b \in 1..Len(candidates) :
        a # b => IntOf(candidates[a].number.repr) # IntOf(candidates[b].number.repr)

-----------------------------------------------------------------------------
(* Properties.                                                             *)

\* C1: no two entries of positions have the same name, in the list being
\* built and in every record written, whatever headers the text holds.
C1_PositionNamesUnique == \A poslist \in PositionLists : NamesUnique(poslist)

\* C1 witness: a text in which a discovered name is a header twice and
\* SENATOR is a header too has been parsed, and a position was discovered.
C1_Witness ==
    /\ LoopDone
    /\ Len(positions) >= 3
    /\ \E a, b \in 1..Len(position_matches) :
          a < b /\ NameOfMatch(a) = NameOfMatch(b) /\ NameOfMatch(a) \notin FixedNames
    /\ \E c \in 1..Len(position_matches) : NameOfMatch(c) = SENATOR

\* C2 as stated: every position of every position list, fixed or discovered,
\* has a candidate list that is not empty.
C2_EveryPositionHasCandidates ==
    \A poslist \in PositionLists :
        \A k \in 1..Len(poslist) : poslist[k].candidates # <<>>

\* C2 amended: every discovered position has a candidate list that is not
\* empty; the two fixed positions are there whatever the reference lists
\* hold, and the candidate list of one is empty exactly when its reference
\* list is.
C2_DiscoveredPositionsHaveCandidates ==
    \A poslist \in PositionLists :
        /\ Len(poslist) >= 2
        /\ (poslist[1].candidates = <<>>) <=> (senators = <<>>)
        /\ (poslist[2].candidates = <<>>) <=> (partylist = <<>>)
        /\ \A k \in 3..Len(poslist) : poslist[k].candidates # <<>>

\* C2 witness: with an empty senator list, a text was parsed in which one
\* header's segment gave candidates and another new header's segment gave none.
C2_Witness ==
    /\ LoopDone
    /\ senators = <<>>
    /\ Len(positions) >= 3
    /\ \E k \in 1..Len(position_matches) :
          /\ NameOfMatch(k) \notin FixedNames
          /\ IsFirstOccurrence(k)
          /\ \A p \in 1..Len(positions) : positions[p].position # NameOfMatch(k)

\* C3: the candidate list of every position, the two fixed ones as well as
\* every discovered one, is in ascending order of the numeric values of the
\* ballot numbers, in the list being built and in every record written.
C3_EveryCandidateListSorted ==
    \A poslist \in PositionLists :
        \A k \in 1..Len(poslist) : SortedByNumber(poslist[k].candidates)

\* C4: positions is the fixed SENATOR position (vote_for 12), then the fixed
\* PARTY LIST position (vote_for 1), then the discovered positions in the
\* order of their first header matches in the text; with no header of another
\* name than the two fixed ones there are exactly these two.
C4_PositionsInDocumentOrder ==
    /\ \A poslist \in PositionLists :
          /\ Len(poslist) >= 2
          /\ poslist[1].position = SENATOR /\ poslist[1].vote_for = 12
          /\ poslist[2].position = PARTY_LIST /\ poslist[2].vote_for = 1
    /\ LoopDone =>
          /\ \A k \in 3..Len(positions) : FirstMatchIndex(positions[k].position) > 0
          /\ \A a, b \in 3..Len(positions) :
                a < b => FirstMatchIndex(positions[a].position)
                            < FirstMatchIndex(positions[b].position)
          /\ (\A k \in 1..Len(position_matches) : NameOfMatch(k) \in FixedNames)
                => Len(positions) = 2

\* C4 witness: two positions were discovered in one text.
C4_Witness == LoopDone /\ Len(positions) >= 4

\* C5: when the batch run has ended, a blank or corrupt file has an error
\* reported for it and no record, and every other file has its record.  The
\* only report of an error the program has is the exception that ends it.
C5_MalformedReportedOthersProcessed ==
    pc \in {"done", "crashed"} =>
        \A d \in 1..Len(pdf_files) :
            IF pdf_files[d] \in {"blank", "corrupt"}
            THEN ~outputs[d].written /\ pc = "crashed" /\ pdf_index = d
            ELSE outputs[d].written

\* C6 as stated: no two candidates of a discovered position have the same
\* ballot number.
C6_BallotNumbersUnique ==
    \A poslist \in PositionLists :
        \A k \in 3..Len(poslist) : NumbersUnique(poslist[k].candidates)

\* C6 amended: a discovered position has one candidate for each entry of its
\* segment, so its ballot numbers are unique exactly when the segment lists
\* no number twice.
C6_NumbersUniqueIffListedOnce ==
    LoopDone =>
        \A k \in 3..Len(positions) :
            LET entries == EntriesOf(positions[k])
            IN  /\ Len(positions[k].candidates) = Len(entries)
                /\ NumbersUnique(positions[k].candidates)
                      <=> \A a, b \in 1..Len(entries) :
                             a # b => IntOf(entries[a].number) # IntOf(entries[b].number)

\* C6 witness: a discovered position with two candidates of the same number.
C6_Witness ==
    /\ LoopDone
    /\ \E k \in 3..Len(positions) : ~NumbersUnique(positions[k].candidates)

\* C7: the number of every candidate of every discovered position is a
\* Python int.
C7_DiscoveredNumbersAreIntegers ==
    \A poslist \in PositionLists :
        \A k \in 3..Len(poslist) :
            \A c \in 1..Len(poslist[k].candidates) :
                poslist[k].candidates[c].number.py = "int"

\* C8: for every segment of the text that holds exactly one entry, numbered
\* "1.", the lone-entry strategy gives a list of one candidate, equal to the
\* list the repeating pattern gives for the entry.
C8_LoneEntryEqualsRepeatingPattern ==
    pc = "headers" =>
        \A k \in 1..Len(position_matches) :
            LET entries == PrimaryMatches(SegmentAfter(k), 1)
            IN  (Len(entries) = 1 /\ entries[1].number = <<"1">>)
                   => /\ Len(LoneEntryCandidates(SegmentAfter(k))) = 1
                      /\ LoneEntryCandidates(SegmentAfter(k))
                            = SortByNumber(CandidatesFromMatches(entries))

\* The discovered positions after the first n header matches: one for each
\* match that is the first of a name other than the two fixed ones and whose
\* segment gives candidates, in the order of the matches.
RECURSIVE DiscoveredUpTo(_)
DiscoveredUpTo(n) ==
    IF n = 0 THEN <<>>
    ELSE LET candidates == ExtractCandidatesFromSection(SegmentAfter(n))
         IN  IF /\ NameOfMatch(n) \notin FixedNames
                /\ IsFirstOccurrence(n)
                /\ candidates # <<>>
             THEN Append(DiscoveredUpTo(n - 1),
                         [position |-> NameOfMatch(n),
                          vote_for |-> IntOf(position_matches[n].group2),
                          instructions |-> default_instructions,
                          candidates |-> candidates])
             ELSE DiscoveredUpTo(n - 1)

\* C9: in the header loop, the seen set holds the two fixed names and the
\* name of every match passed, whether or not its segment gave candidates;
\* the discovered positions are those of the first occurrences only, each
\* with the candidates of the segment from the end of its match to the start
\* of the next match (skipped or not) or the end of the text.
C9_OnlyFirstOccurrenceProcessed ==
    pc = "headers" =>
        /\ seen_positions = FixedNames \cup {NameOfMatch(k) : k \in 1..(i - 1)}
        /\ SubSeq(positions, 3, Len(positions)) = DiscoveredUpTo(i - 1)

\* C9 witness: a name is a header twice; the segment of its first occurrence,
\* which ends where the second, skipped, match starts, gave no candidate, and
\* the segment of the second would have given some.
C9_Witness ==
    /\ LoopDone
    /\ \E a, b \in 1..Len(position_matches) :
          /\ a + 1 = b
          /\ NameOfMatch(a) = NameOfMatch(b)
          /\ NameOfMatch(a) \notin FixedNames
          /\ IsFirstOccurrence(a)
          /\ ExtractCandidatesFromSection(SegmentAfter(a)) = <<>>
          /\ ExtractCandidatesFromSection(SegmentAfter(b)) # <<>>
          /\ \A p \in 1..Len(positions) : positions[p].position # NameOfMatch(a)

\* Every record written in the batch carries the two fixed positions as built
\* from the reference lists and the default instructions the processor holds
\* now, and every discovered position carries the default instructions.
RecordsCarryReferenceData ==
    /\ default_instructions =
          [english  |-> "Mark the inside of the circle beside the name of the desired candidate.",
           filipino |-> "Markahan ang loob ng bilog sa tabi ng nais ibotong kandidato."]
    /\ \A rec \in WrittenRecords :
          /\ rec.positions[1] =
                [position |-> SENATOR, vote_for |-> 12,
                 instructions |-> default_instructions, candidates |-> senators]
          /\ rec.positions[2].position = PARTY_LIST
          /\ rec.positions[2].candidates = partylist
          /\ \A k \in 3..Len(rec.positions) :
                rec.positions[k].instructions = default_instructions
    /\ \A r1, r2 \in WrittenRecords :
          SubSeq(r1.positions, 1, 2) = SubSeq(r2.positions, 1, 2)

\* C10: no step of a batch run changes the two reference lists or the default
\* instructions, and every record written carries the fixed positions built
\* from them: the same in every record, whatever was parsed before.
C10_FixedPositionsUnchanged ==
    /\ [][/\ senators' = senators
          /\ partylist' = partylist
          /\ default_instructions' = default_instructions]_vars
    /\ []RecordsCarryReferenceData

\* C10 witness: a batch of two files has ended, the reference lists are not
\* empty, and the two records differ: one has a discovered position.
C10_Witness ==
    /\ pc = "done"
    /\ Len(pdf_files) >= 2
    /\ senators # <<>>
    /\ partylist # <<>>
    /\ outputs[1].written /\ outputs[2].written
    /\ Len(outputs[1].positions) = 2
    /\ Len(outputs[2].positions) >= 3

=============================================================================
